---- MODULE Spec2Model ----
(***************************************************************************)
(* State-machine model of Steam Bubbles.  The aggregation engine           *)
(* (steam-bubbles/src/App.tsx): the merge map and its operations, the      *)
(* aggregation effect that builds the unmerged and the canonical set, the  *)
(* hidden set, and the ranked selection handed to the chart.  The chart    *)
(* (steam-bubbles/src/BubbleChart.tsx): sizing, the packed layout, the     *)
(* targets and starts of the scatter layout, and the viewport.             *)
(*                                                                         *)
(* Numbers: weights are integers.  playtime_forever is drawn from          *)
(* multiples of 60 so that minutes / 60 is exact in integer arithmetic.    *)
(* Strings: "" stands for a missing (undefined / empty) string.  The img   *)
(* and storeUrl fields of GameViz are functions of appid alone and are     *)
(* left out of the records.                                                *)
(***************************************************************************)
EXTENDS Integers, Sequences, FiniteSets, TLC

VARIABLES
    rawGames,        \* App.tsx:38   raw catalog records of the last load
    manualGames,     \* App.tsx:97   manual items
    mergeMap,        \* App.tsx:82   from -> to, a function on a set of ids
    mergeFrom,       \* App.tsx:93   selected "from" id, NoSel for ""
    mergeTo,         \* App.tsx:94   selected "to" id, NoSel for ""
    unmergedGames,   \* App.tsx:39   the unmerged set
    games,           \* App.tsx:40   the canonical merged set
    error,           \* App.tsx:41   user-visible message
    hiddenAppids,    \* App.tsx:67   the HiddenSet
    selectedHiddenAppid, \* App.tsx:79
    topNInput,       \* App.tsx:43   slider value
    topN,            \* App.tsx:44   debounced slider value
    showAll,         \* App.tsx:46
    loading,         \* number of owned-games fetches awaiting their response
    mergeResult,     \* history: the return addMerge took if it was the last
                     \* handler to run, "none" otherwise
    walkStart,       \* findMergeRoot: the appid argument
    walkCur,         \* findMergeRoot: cur
    walkSeen,        \* findMergeRoot: seen
    walkTrail,       \* history: the nodes whose outgoing edge was followed
    walkPc,          \* findMergeRoot: "idle" | "loop" | "done"
    layoutMode,      \* App.tsx:49   "scatter" | "packed"
    shuffleSeed,     \* App.tsx:52   run seed of the scatter layout
    userZoom,        \* BubbleChart.tsx:94   user zoom, in 1/ZoomUnit
    pan,             \* BubbleChart.tsx:95   user pan [x, y], in viewBox units
    dragRef,         \* BubbleChart.tsx:96   [dragging, lastX, lastY]
    scatterLayout,   \* BubbleChart.tsx:211  the stored scatter layout
    scatterPosRef,   \* BubbleChart.tsx:86   the memo: appid -> [x, y]
    scatterMaxRRef,  \* BubbleChart.tsx:90   largest radius of the last run
    timers,          \* BubbleChart.tsx:225  the timeouts set and not yet run,
                     \* in the order they were set
    processing       \* the value last passed to onProcessingChange

appVars == <<rawGames, manualGames, mergeMap, mergeFrom, mergeTo,
             unmergedGames, games, error, hiddenAppids, selectedHiddenAppid,
             topNInput, topN, showAll, loading, mergeResult>>
walkVars == <<walkStart, walkCur, walkSeen, walkTrail, walkPc>>
controlVars == <<layoutMode, shuffleSeed, userZoom, pan, dragRef>>
\* The scatter state of the chart is followed in SpecScatter; the other
\* specifications leave it as it is in their initial state.
scatterVars == <<scatterLayout, scatterPosRef, scatterMaxRRef, timers,
                 processing>>
chartVars == <<controlVars, scatterVars>>
vars == <<appVars, walkVars, chartVars>>

----------------------------------------------------------------------------
(* Bounds and inputs *)

\* fixed point: userZoom 1 is ZoomUnit; a radius or position of the layout
\* of one unit is PosUnit
ZoomUnit == 100
PosUnit == 10

NoMaxR == 0         \* the null of scatterMaxRRef
NoSel == 0          \* the "" of mergeFrom / mergeTo / selectedHiddenAppid
MaxManual == 2      \* cap on the length of manualGames
MaxLoading == 1     \* cap on concurrently pending loads
MaxWalkId == 3      \* ids 1..MaxWalkId of the maps findMergeRoot is walked on
SelN == 11          \* size of the catalogs the selection is checked on
MaxHidden == 2      \* cap on the size of the hidden set in SpecSel

TopNMin == 10       \* slider min
TopNStep == 10      \* slider step
TopNInit == 100     \* initial topN / topNInput
TopNFloor == 5      \* Math.max(5, topN)

Raw(id, nm, minutes) == [appid |-> id, name |-> nm, playtime_forever |-> minutes]

\* The responses the owned-games endpoint may give (response.games).
Catalogs ==
    { <<>>,
      << Raw(1, "A", 300), Raw(2, "B", 480) >>,
      << Raw(2, "B", 60), Raw(2, "B2", 120), Raw(0, "X", 60), Raw(3, "", 60) >> }

ManualAppidInputs == {2, 3, 0}     \* Number(manualAppidInput); 0 is invalid
ManualHoursInputs == {3, -1}       \* Number(manualHoursInput); -1 is invalid
\* d?.name of the appdetails response: the store knows app 2 only
AppDetailsName(appid) == IF appid = 2 THEN "G" ELSE ""

----------------------------------------------------------------------------
(* Pure helpers *)

Range(s) == { s[i] : i \in 1..Len(s) }

RECURSIVE SumHours(_)
SumHours(s) == IF s = <<>> THEN 0 ELSE Head(s).hours + SumHours(Tail(s))

\* { ...prev, [from]: to }
MapSet(map, from, to) ==
    [k \in DOMAIN map \cup {from} |-> IF k = from THEN to ELSE map[k]]

\* mutant: the removal returns an empty map
MapDeleteAll(map, from) == [k \in {} |-> 0]

\* delete next[from]
MapDelete(map, from) == [k \in DOMAIN map \ {from} |-> map[k]]

EmptyMap == [k \in {} |-> 0]

\* mutant: the loop condition without the seen test
WalkGuardNoSeen(cur, seen, map) == cur \in DOMAIN map

\* the while condition of findMergeRoot
WalkGuard(cur, seen, map) == cur \in DOMAIN map /\ cur \notin seen

RECURSIVE FindLoop(_, _, _)
FindLoop(cur, seen, map) ==
    IF WalkGuard(cur, seen, map)
    THEN FindLoop(map[cur], seen \cup {cur}, map)
    ELSE cur

findMergeRoot(appid, map) == FindLoop(appid, {}, map)

----------------------------------------------------------------------------
(* The aggregation effect, App.tsx:309-375 *)

\* minutes -> hours, coerced to 0 when negative
ToHours(minutes) ==
    LET hoursRaw == minutes \div 60
    IN  IF hoursRaw >= 0 THEN hoursRaw ELSE 0

\* mutant: the filter without the name test
RawValidIdOnly(g) == g.appid # 0

RawValid(g) == g.appid # 0 /\ g.name # ""

\* const owned = rawGames.filter(...).map(...)
Owned(raw) ==
    LET ok == SelectSeq(raw, RawValid)
    IN  [i \in 1..Len(ok) |->
            [appid |-> ok[i].appid, name |-> ok[i].name,
             hours |-> ToHours(ok[i].playtime_forever), manual |-> FALSE]]

\* const manualList = manualGames.map(...)
ManualList(manual) ==
    [i \in 1..Len(manual) |->
        [appid |-> manual[i].appid,
         name |-> IF manual[i].name # "" THEN manual[i].name ELSE "App",
         hours |-> manual[i].hours, manual |-> TRUE]]

Base(raw, manual) == Owned(raw) \o ManualList(manual)

\* mutant: the last entry seen for an id wins
MetaPickLast(meta, g) == g

\* one iteration of the metaLookup loop: the entry kept for g.appid
MetaPick(meta, g) ==
    IF g.appid \notin DOMAIN meta THEN g
    ELSE IF meta[g.appid].manual /\ ~g.manual THEN g ELSE meta[g.appid]

RECURSIVE MetaLoop(_, _, _)
MetaLoop(base, i, meta) ==
    IF i > Len(base) THEN meta
    ELSE LET g == base[i]
             pick == MetaPick(meta, g)
         IN  MetaLoop(base, i + 1,
                 [k \in DOMAIN meta \cup {g.appid} |->
                     IF k = g.appid THEN pick ELSE meta[k]])

\* mutant: a lookup that is never filled
MetaLookupEmpty(base) == [k \in {} |-> 0]

MetaLookup(base) == MetaLoop(base, 1, [k \in {} |-> 0])

\* position of key in the Map merged (a sequence of [key, val]), 0 if absent
KeyIndex(merged, key) ==
    IF \E j \in 1..Len(merged) : merged[j].key = key
    THEN CHOOSE j \in 1..Len(merged) : merged[j].key = key
    ELSE 0

\* mutant: the weight of the last contributor instead of the sum
AccumulateLast(existing, g) ==
    [existing EXCEPT !.hours = g.hours, !.manual = @ \/ g.manual]

\* existing.hours += g.hours; existing.manual = existing.manual || g.manual
Accumulate(existing, g) ==
    [existing EXCEPT !.hours = @ + g.hours, !.manual = @ \/ g.manual]

RECURSIVE MergeLoop(_, _, _, _, _)
MergeLoop(base, i, merged, meta, map) ==
    IF i > Len(base) THEN merged
    ELSE LET g == base[i]
             root == findMergeRoot(g.appid, map)
             m == IF root \in DOMAIN meta THEN meta[root] ELSE g
             idx == KeyIndex(merged, root)
         IN  IF idx # 0
             THEN MergeLoop(base, i + 1,
                      [merged EXCEPT ![idx].val = Accumulate(@, g)], meta, map)
             ELSE MergeLoop(base, i + 1,
                      Append(merged,
                          [key |-> root,
                           val |-> [appid |-> m.appid, name |-> m.name,
                                    hours |-> g.hours, manual |-> g.manual]]),
                      meta, map)

\* [...merged.values()]
Merged(base, map) ==
    LET merged == MergeLoop(base, 1, <<>>, MetaLookup(base), map)
    IN  [j \in 1..Len(merged) |-> merged[j].val]

\* The effect: <<unmergedGames, games>> after it ran on (raw, manual, map),
\* given the values um, gm the two states held before.
Aggregation(raw, manual, map, um, gm) ==
    IF Len(raw) = 0 /\ Len(manual) = 0 THEN <<um, gm>>
    ELSE <<Base(raw, manual), Merged(Base(raw, manual), map)>>

\* const hiddenGamesList / visibleGames
HiddenGamesList(gs, hidden) == SelectSeq(gs, LAMBDA g : g.appid \in hidden)
VisibleGames(gs, hidden) == SelectSeq(gs, LAMBDA g : g.appid \notin hidden)

\* allForMerge (as the set of option values)
AllForMerge == { unmergedGames[i].appid : i \in 1..Len(unmergedGames) }

----------------------------------------------------------------------------
(* The ranked selection, App.tsx:388-392 *)

\* mutant: ascending comparator
CompareAscending(a, b) == a.hours - b.hours

\* the comparator (a, b) => b.hours - a.hours
Compare(a, b) == b.hours - a.hours

\* Array.prototype.sort is stable: g goes behind every element the
\* comparator does not put after it.
InsertSorted(sorted, g) ==
    LET k == Cardinality({ j \in 1..Len(sorted) : Compare(sorted[j], g) <= 0 })
    IN  SubSeq(sorted, 1, k) \o <<g>> \o SubSeq(sorted, k + 1, Len(sorted))

RECURSIVE SortFrom(_, _, _)
SortFrom(s, i, sorted) ==
    IF i > Len(s) THEN sorted
    ELSE SortFrom(s, i + 1, InsertSorted(sorted, s[i]))

Sorted(s) == SortFrom(s, 1, <<>>)

Max(a, b) == IF a >= b THEN a ELSE b
Min(a, b) == IF a <= b THEN a ELSE b

\* sorted.slice(0, Math.max(5, topN))
SliceEnd(n) == Max(TopNFloor, n)

Selection(visible, n, all) ==
    LET sorted == Sorted(visible)
    IN  IF all THEN sorted
        ELSE SubSeq(sorted, 1, Min(Len(sorted), SliceEnd(n)))

selection == Selection(VisibleGames(games, hiddenAppids), topN, showAll)

----------------------------------------------------------------------------
(* Initial state: nothing in localStorage, nothing loaded *)

AppInit ==
    /\ rawGames = <<>>
    /\ manualGames = <<>>
    /\ mergeMap = EmptyMap
    /\ mergeFrom = NoSel
    /\ mergeTo = NoSel
    /\ unmergedGames = <<>>
    /\ games = <<>>
    /\ error = ""
    /\ hiddenAppids = {}
    /\ selectedHiddenAppid = NoSel
    /\ topNInput = TopNInit
    /\ topN = TopNInit
    /\ showAll = FALSE
    /\ loading = 0
    /\ mergeResult = "none"

WalkIdle ==
    /\ walkStart = NoSel
    /\ walkCur = NoSel
    /\ walkSeen = {}
    /\ walkTrail = <<>>
    /\ walkPc = "idle"

\* the chart as first rendered: scatter mode, seed 0, identity view
ChartInit ==
    /\ layoutMode = "scatter"
    /\ shuffleSeed = 0
    /\ userZoom = ZoomUnit
    /\ pan = [x |-> 0, y |-> 0]
    /\ dragRef = [dragging |-> FALSE, lastX |-> 0, lastY |-> 0]

\* the chart before it is rendered: nothing laid out, nothing scheduled
ScatterIdle ==
    /\ scatterLayout = <<>>
    /\ scatterPosRef = EmptyMap
    /\ scatterMaxRRef = NoMaxR
    /\ timers = <<>>
    /\ processing = FALSE

Init == AppInit /\ WalkIdle /\ ChartInit /\ ScatterIdle

----------------------------------------------------------------------------
(* Handlers of the merge panel *)

\* the effect of App.tsx:309 re-run on the new raw list, manual list and map;
\* gm is the value games holds when the effect starts
RunAggregation(raw, manual, map, gm) ==
    LET agg == Aggregation(raw, manual, map, unmergedGames, gm)
    IN  /\ unmergedGames' = agg[1]
        /\ games' = agg[2]

setMergeFrom(v) ==
    /\ Len(unmergedGames) > 0
    /\ v \in AllForMerge \cup {NoSel}
    /\ mergeFrom' = v
    /\ mergeResult' = "none"
    /\ UNCHANGED <<rawGames, manualGames, mergeMap, mergeTo, unmergedGames,
                   games, error, hiddenAppids, selectedHiddenAppid, topNInput,
                   topN, showAll, loading, walkVars, chartVars>>

setMergeTo(v) ==
    /\ Len(unmergedGames) > 0
    /\ v \in (AllForMerge \ {mergeFrom}) \cup {NoSel}
    /\ mergeTo' = v
    /\ mergeResult' = "none"
    /\ UNCHANGED <<rawGames, manualGames, mergeMap, mergeFrom, unmergedGames,
                   games, error, hiddenAppids, selectedHiddenAppid, topNInput,
                   topN, showAll, loading, walkVars, chartVars>>

\* mutant: the first return without the test of mergeTo
MergeInvalidNoTo == mergeFrom = NoSel \/ mergeFrom = mergeTo

\* the first return of addMerge
MergeInvalid == mergeFrom = NoSel \/ mergeTo = NoSel \/ mergeFrom = mergeTo

\* rootTo === mergeFrom
MergeLoops ==
    findMergeRoot(mergeTo, MapSet(mergeMap, mergeFrom, mergeTo)) = mergeFrom

addMerge ==
    /\ Len(unmergedGames) > 0
    /\ IF MergeInvalid
       THEN /\ mergeResult' = "invalid"
            /\ UNCHANGED <<mergeMap, mergeFrom, mergeTo, error,
                           unmergedGames, games>>
       ELSE IF MergeLoops
       THEN /\ mergeResult' = "loop"
            /\ error' = "That merge would create a loop."
            /\ UNCHANGED <<mergeMap, mergeFrom, mergeTo, unmergedGames, games>>
       ELSE /\ mergeResult' = "committed"
            /\ mergeMap' = MapSet(mergeMap, mergeFrom, mergeTo)
            /\ mergeFrom' = NoSel
            /\ mergeTo' = NoSel
            /\ RunAggregation(rawGames, manualGames, mergeMap', games)
            /\ UNCHANGED error
    /\ UNCHANGED <<rawGames, manualGames, hiddenAppids, selectedHiddenAppid,
                   topNInput, topN, showAll, loading, walkVars, chartVars>>

removeMerge(fromAppid) ==
    /\ Len(unmergedGames) > 0
    /\ fromAppid \in DOMAIN mergeMap
    /\ mergeMap' = MapDelete(mergeMap, fromAppid)
    /\ RunAggregation(rawGames, manualGames, mergeMap', games)
    /\ mergeResult' = "none"
    /\ UNCHANGED <<rawGames, manualGames, mergeFrom, mergeTo, error,
                   hiddenAppids, selectedHiddenAppid, topNInput, topN, showAll,
                   loading, walkVars, chartVars>>

clearMerges ==
    /\ Len(unmergedGames) > 0
    /\ DOMAIN mergeMap # {}
    /\ mergeMap' = EmptyMap
    /\ mergeFrom' = NoSel
    /\ mergeTo' = NoSel
    /\ RunAggregation(rawGames, manualGames, mergeMap', games)
    /\ mergeResult' = "none"
    /\ UNCHANGED <<rawGames, manualGames, error, hiddenAppids,
                   selectedHiddenAppid, topNInput, topN, showAll, loading, walkVars, chartVars>>

----------------------------------------------------------------------------
(* Manual items and loading *)

\* index of the manual item with this appid, 0 if none (findIndex)
ManualIndex(manual, appid) ==
    IF \E j \in 1..Len(manual) : manual[j].appid = appid
    THEN CHOOSE j \in 1..Len(manual) :
             /\ manual[j].appid = appid
             /\ \A k \in 1..(j - 1) : manual[k].appid # appid
    ELSE 0

\* the functional update of setManualGames in addManualGame
ManualPut(manual, item) ==
    LET idx == ManualIndex(manual, item.appid)
    IN  IF idx > 0 THEN [manual EXCEPT ![idx] = item] ELSE Append(manual, item)

\* The appdetails fetch only supplies the name; the handler is taken as one
\* step from the click to the state update.
addManualGame(appid, hours, fetched) ==
    /\ IF ~(appid > 0)
       THEN /\ error' = "Enter a valid AppID."
            /\ UNCHANGED <<manualGames, unmergedGames, games>>
       ELSE IF ~(hours >= 0)
       THEN /\ error' = "Enter valid hours."
            /\ UNCHANGED <<manualGames, unmergedGames, games>>
       ELSE /\ error' = ""
            /\ manualGames' = ManualPut(manualGames,
                   [appid |-> appid, hours |-> hours,
                    name |-> IF fetched # "" THEN fetched ELSE "App"])
            /\ Len(manualGames') <= MaxManual
            /\ RunAggregation(rawGames, manualGames', mergeMap, games)
    /\ mergeResult' = "none"
    /\ UNCHANGED <<rawGames, mergeMap, mergeFrom, mergeTo, hiddenAppids,
                   selectedHiddenAppid, topNInput, topN, showAll, loading, walkVars, chartVars>>

removeManualGame(appid) ==
    /\ \E j \in 1..Len(manualGames) : manualGames[j].appid = appid
    /\ manualGames' = SelectSeq(manualGames, LAMBDA m : m.appid # appid)
    /\ RunAggregation(rawGames, manualGames', mergeMap, games)
    /\ mergeResult' = "none"
    /\ UNCHANGED <<rawGames, mergeMap, mergeFrom, mergeTo, error, hiddenAppids,
                   selectedHiddenAppid, topNInput, topN, showAll, loading, walkVars, chartVars>>

clearManualGames ==
    /\ Len(manualGames) > 0
    /\ manualGames' = <<>>
    /\ RunAggregation(rawGames, manualGames', mergeMap, games)
    /\ mergeResult' = "none"
    /\ UNCHANGED <<rawGames, mergeMap, mergeFrom, mergeTo, error, hiddenAppids,
                   selectedHiddenAppid, topNInput, topN, showAll, loading, walkVars, chartVars>>

\* loadMyGames up to its await (loadGamesById makes the same updates of
\* rawGames and games)
loadMyGames ==
    /\ loading < MaxLoading
    /\ loading' = loading + 1
    /\ error' = ""
    /\ rawGames' = <<>>
    /\ RunAggregation(rawGames', manualGames, mergeMap, <<>>)
    /\ mergeResult' = "none"
    /\ UNCHANGED <<manualGames, mergeMap, mergeFrom, mergeTo, hiddenAppids,
                   selectedHiddenAppid, topNInput, topN, showAll,
                   walkVars, chartVars>>

\* loadMyGames after its await, list being data?.response?.games ?? []
loadResolve(list) ==
    /\ loading > 0
    /\ loading' = loading - 1
    /\ IF Len(list) = 0
       THEN /\ error' = "No games returned."
            /\ UNCHANGED <<rawGames, unmergedGames, games>>
       ELSE /\ rawGames' = list
            /\ RunAggregation(rawGames', manualGames, mergeMap, games)
            /\ UNCHANGED error
    /\ mergeResult' = "none"
    /\ UNCHANGED <<manualGames, mergeMap, mergeFrom, mergeTo, hiddenAppids,
                   selectedHiddenAppid, topNInput, topN, showAll,
                   walkVars, chartVars>>

----------------------------------------------------------------------------
(* Hidden set and selection controls *)

\* mutant: toggleHide that only ever adds
ToggleSetAddOnly(prev, appid) == prev \cup {appid}

\* the functional update of setHiddenAppids in toggleHide
ToggleSet(prev, appid) ==
    IF appid \in prev THEN prev \ {appid} ELSE prev \cup {appid}

GameIds(gs) == { gs[i].appid : i \in 1..Len(gs) }

\* toggleHide as called by the chart for a bubble of the selection
toggleHide(appid) ==
    /\ appid \in GameIds(selection)
    /\ hiddenAppids' = ToggleSet(hiddenAppids, appid)
    /\ Cardinality(hiddenAppids') <= MaxHidden
    /\ mergeResult' = "none"
    /\ UNCHANGED <<rawGames, manualGames, mergeMap, mergeFrom, mergeTo,
                   unmergedGames, games, error, selectedHiddenAppid, topNInput,
                   topN, showAll, loading, walkVars, controlVars>>

setSelectedHiddenAppid(v) ==
    /\ Len(games) > 0
    /\ Len(HiddenGamesList(games, hiddenAppids)) > 0
    /\ v \in GameIds(HiddenGamesList(games, hiddenAppids)) \cup {NoSel}
    /\ selectedHiddenAppid' = v
    /\ mergeResult' = "none"
    /\ UNCHANGED <<rawGames, manualGames, mergeMap, mergeFrom, mergeTo,
                   unmergedGames, games, error, hiddenAppids, topNInput, topN,
                   showAll, loading, walkVars, chartVars>>

\* the Unhide button
unhideSelected ==
    /\ Len(games) > 0
    /\ Len(HiddenGamesList(games, hiddenAppids)) > 0
    /\ selectedHiddenAppid # NoSel
    /\ hiddenAppids' = ToggleSet(hiddenAppids, selectedHiddenAppid)
    /\ selectedHiddenAppid' = NoSel
    /\ mergeResult' = "none"
    /\ UNCHANGED <<rawGames, manualGames, mergeMap, mergeFrom, mergeTo,
                   unmergedGames, games, error, topNInput, topN, showAll,
                   loading, walkVars, chartVars>>

clearHidden ==
    /\ Len(games) > 0
    /\ Len(HiddenGamesList(games, hiddenAppids)) > 0
    /\ hiddenAppids' = {}
    /\ selectedHiddenAppid' = NoSel
    /\ mergeResult' = "none"
    /\ UNCHANGED <<rawGames, manualGames, mergeMap, mergeFrom, mergeTo,
                   unmergedGames, games, error, topNInput, topN, showAll,
                   loading, walkVars, controlVars>>

\* the slider; its values are TopNMin, TopNMin + TopNStep, ...
setTopNInput(v) ==
    /\ Len(games) > 0
    /\ ~showAll
    /\ topNInput' = v
    /\ mergeResult' = "none"
    /\ UNCHANGED <<rawGames, manualGames, mergeMap, mergeFrom, mergeTo,
                   unmergedGames, games, error, hiddenAppids,
                   selectedHiddenAppid, topN, showAll, loading,
                   walkVars, chartVars>>

\* the 120 ms timer of the debounce effect
topNTimeout ==
    /\ topN # topNInput
    /\ topN' = topNInput
    /\ mergeResult' = "none"
    /\ UNCHANGED <<rawGames, manualGames, mergeMap, mergeFrom, mergeTo,
                   unmergedGames, games, error, hiddenAppids,
                   selectedHiddenAppid, topNInput, showAll, loading, walkVars, chartVars>>

setShowAll(b) ==
    /\ Len(games) > 0
    /\ showAll' = b
    /\ mergeResult' = "none"
    /\ UNCHANGED <<rawGames, manualGames, mergeMap, mergeFrom, mergeTo,
                   unmergedGames, games, error, hiddenAppids,
                   selectedHiddenAppid, topNInput, topN, loading,
                   walkVars, chartVars>>

----------------------------------------------------------------------------
(* The aggregation engine: loading, manual items, merges *)

Next ==
    \/ \E v \in {1, 2, 3, NoSel} : setMergeFrom(v)
    \/ \E v \in {1, 2, 3, NoSel} : setMergeTo(v)
    \/ addMerge
    \/ \E f \in DOMAIN mergeMap : removeMerge(f)
    \/ clearMerges
    \/ \E a \in ManualAppidInputs, h \in ManualHoursInputs :
           addManualGame(a, h, AppDetailsName(a))
    \/ \E a \in ManualAppidInputs : removeManualGame(a)
    \/ clearManualGames
    \/ loadMyGames
    \/ \E list \in Catalogs : loadResolve(list)

Spec == Init /\ [][Next]_vars

----------------------------------------------------------------------------
(* findMergeRoot as a loop, on every map over 1..MaxWalkId *)

WalkIds == 1..MaxWalkId

\* every Record<number, number> over WalkIds, cyclic ones included
WalkMaps == UNION { [D -> WalkIds] : D \in SUBSET WalkIds }

InitRoot ==
    /\ ChartInit
    /\ ScatterIdle
    /\ rawGames = <<>>
    /\ manualGames = <<>>
    /\ mergeMap \in WalkMaps
    /\ mergeFrom = NoSel
    /\ mergeTo = NoSel
    /\ unmergedGames = <<>>
    /\ games = <<>>
    /\ error = ""
    /\ hiddenAppids = {}
    /\ selectedHiddenAppid = NoSel
    /\ topNInput = TopNInit
    /\ topN = TopNInit
    /\ showAll = FALSE
    /\ loading = 0
    /\ mergeResult = "none"
    /\ walkStart \in WalkIds
    /\ walkCur = walkStart
    /\ walkSeen = {}
    /\ walkTrail = <<>>
    /\ walkPc = "loop"

\* one iteration of the while loop: seen.add(cur); cur = map[cur]
walkStep ==
    /\ walkPc = "loop"
    /\ WalkGuard(walkCur, walkSeen, mergeMap)
    /\ walkSeen' = walkSeen \cup {walkCur}
    /\ walkCur' = mergeMap[walkCur]
    /\ walkTrail' = Append(walkTrail, walkCur)
    /\ UNCHANGED <<appVars, chartVars, walkStart, walkPc>>

\* the loop condition fails: return cur
walkReturn ==
    /\ walkPc = "loop"
    /\ ~WalkGuard(walkCur, walkSeen, mergeMap)
    /\ walkPc' = "done"
    /\ UNCHANGED <<appVars, chartVars, walkStart, walkCur, walkSeen, walkTrail>>

NextRoot == walkStep \/ walkReturn

SpecRoot == InitRoot /\ [][NextRoot]_vars

\* the loop is straight-line code: it keeps running until it returns
SpecRootFair == SpecRoot /\ WF_vars(NextRoot)

----------------------------------------------------------------------------
(* The selection controls, on catalogs of SelN records *)

SelIds == 1..SelN

\* hours of record i in the catalogs the selection is checked on
SelWeights ==
    { [i \in SelIds |-> 1],
      [i \in SelIds |-> i],
      [i \in SelIds |-> i % 3] }

SelCatalogs ==
    { [i \in SelIds |-> Raw(i, "N", 60 * w[i])] : w \in SelWeights }
    \cup { [i \in SelIds |-> Raw(SelN + 1 - i, "N", 60 * w[SelN + 1 - i])] :
             w \in SelWeights }

SliderValues == { TopNMin, TopNMin + TopNStep }

InitSel ==
    /\ rawGames \in SelCatalogs
    /\ manualGames = <<>>
    /\ mergeMap = EmptyMap
    /\ mergeFrom = NoSel
    /\ mergeTo = NoSel
    /\ unmergedGames = Aggregation(rawGames, manualGames, mergeMap, <<>>, <<>>)[1]
    /\ games = Aggregation(rawGames, manualGames, mergeMap, <<>>, <<>>)[2]
    /\ error = ""
    /\ hiddenAppids = {}
    /\ selectedHiddenAppid = NoSel
    /\ topNInput = TopNInit
    /\ topN = TopNInit
    /\ showAll = FALSE
    /\ loading = 0
    /\ mergeResult = "none"
    /\ WalkIdle
    /\ ChartInit
    /\ ScatterIdle

NextSel ==
    \/ \E a \in SelIds : toggleHide(a) /\ UNCHANGED scatterVars
    \/ \E v \in SelIds \cup {NoSel} : setSelectedHiddenAppid(v)
    \/ unhideSelected
    \/ clearHidden /\ UNCHANGED scatterVars
    \/ \E v \in SliderValues : setTopNInput(v)
    \/ topNTimeout
    \/ \E b \in BOOLEAN : setShowAll(b)

SpecSel == InitSel /\ [][NextSel]_vars

----------------------------------------------------------------------------
(* The app started with manual items already in localStorage *)

Stored(id, nm, h) == [appid |-> id, hours |-> h, name |-> nm]

\* JSON.parse(localStorage.getItem("manualGames")): every array is taken as
\* it is, whatever the hours of its items
StoredManualGames ==
    { << Stored(2, "G", 3) >>,
      << Stored(2, "G", -3) >>,
      << Stored(3, "", 4), Stored(2, "G", -3) >> }

\* responses with a negative playtime_forever
StoredCatalogs ==
    { << Raw(1, "A", -120), Raw(2, "B", 180) >>,
      << Raw(2, "B", 60), Raw(2, "B2", 120) >> }

\* the state the useState initialisers give, before the first effect run
InitStored ==
    /\ rawGames = <<>>
    /\ manualGames \in StoredManualGames
    /\ mergeMap = EmptyMap
    /\ mergeFrom = NoSel
    /\ mergeTo = NoSel
    /\ unmergedGames = <<>>
    /\ games = <<>>
    /\ error = ""
    /\ hiddenAppids = {}
    /\ selectedHiddenAppid = NoSel
    /\ topNInput = TopNInit
    /\ topN = TopNInit
    /\ showAll = FALSE
    /\ loading = 0
    /\ mergeResult = "none"
    /\ WalkIdle
    /\ ChartInit
    /\ ScatterIdle

\* the aggregation effect has run for the manual items of this state
Mounted == ~(Len(manualGames) > 0 /\ Len(unmergedGames) = 0)

\* the run of the aggregation effect that follows the first render
mountEffect ==
    /\ ~Mounted
    /\ RunAggregation(rawGames, manualGames, mergeMap, games)
    /\ mergeResult' = "none"
    /\ UNCHANGED <<rawGames, manualGames, mergeMap, mergeFrom, mergeTo, error,
                   hiddenAppids, selectedHiddenAppid, topNInput, topN, showAll,
                   loading, walkVars, chartVars>>

NextStored ==
    \/ mountEffect
    \/ Mounted /\ loadMyGames
    \/ \E list \in StoredCatalogs : Mounted /\ loadResolve(list)
    \/ \E a \in ManualAppidInputs, h \in ManualHoursInputs :
           Mounted /\ addManualGame(a, h, AppDetailsName(a))
    \/ \E a \in ManualAppidInputs : Mounted /\ removeManualGame(a)
    \/ Mounted /\ clearManualGames

SpecStored == InitStored /\ [][NextStored]_vars

----------------------------------------------------------------------------
(* The chart, BubbleChart.tsx: sizing and the packed layout                *)
(*                                                                         *)
(* Lengths (radii, positions) are integers in 1/PosUnit of a layout unit,  *)
(* square roots and interpolation parameters in 1/Frac.  The d3 calls are  *)
(* modelled by what d3-scale and d3-hierarchy compute.                     *)

Width == 950        \* const width
Height == 720       \* const height
OuterPad == 36      \* const outerPad
MinRadius == 6      \* range([6, maxR])
PackPadding == 5    \* .padding(5)
Frac == 1000

\* Math.min(width, height) * 0.15
MaxRadius == (Min(Width, Height) * 15) \div 100

RECURSIVE SqrtSearch(_, _, _)
SqrtSearch(x, lo, hi) ==
    IF lo = hi THEN lo
    ELSE LET mid == (lo + hi + 1) \div 2
         IN  IF mid * mid <= x THEN SqrtSearch(x, mid, hi)
             ELSE SqrtSearch(x, lo, mid - 1)

\* Math.sqrt(h), in 1/Frac
Sqrt(h) == SqrtSearch(h * Frac * Frac, 0, 46340)

RECURSIVE SeqMax(_)
SeqMax(s) == IF Len(s) = 1 THEN s[1] ELSE Max(Head(s), SeqMax(Tail(s)))

\* d3.max(values) ?? 1: undefined only for an empty array
MaxValue(gs) ==
    IF Len(gs) = 0 THEN 1
    ELSE SeqMax([i \in 1..Len(gs) |-> IF gs[i].hours > 0 THEN gs[i].hours ELSE 0])

\* d3-scale normalize(a, b): x |-> (x - a) / (b - a), and the constant 0.5
\* when b - a is 0
Normalize(x, a, b) ==
    IF b - a = 0 THEN Frac \div 2 ELSE (Frac * (x - a)) \div (b - a)

\* d3.scaleSqrt().domain([0, maxValue]).range([6, maxR]) applied to h
rScale(h, maxValue) ==
    LET t == Normalize(Sqrt(h), Sqrt(0), Sqrt(maxValue))
    IN  (MinRadius * PosUnit * (Frac - t) + MaxRadius * PosUnit * t) \div Frac

\* const sized = games.map(...)
Sized(gs) ==
    [i \in 1..Len(gs) |->
        LET h == IF gs[i].hours >= 0 THEN gs[i].hours ELSE 0
        IN  [appid |-> gs[i].appid, name |-> gs[i].name, hours |-> gs[i].hours,
             manual |-> gs[i].manual, value |-> h,
             r |-> rScale(h, MaxValue(gs))]]

\* the games prop of the chart is the ranked selection
sized == Sized(selection)

\* mutant: the comparator without its id tie-break
PackedCompareValueOnly(a, b) == b.value - a.value

\* (a, b) => b.value - a.value || a.appid - b.appid
PackedCompare(a, b) ==
    IF b.value - a.value # 0 THEN b.value - a.value ELSE a.appid - b.appid

PackedInsert(sorted, g) ==
    LET k == Cardinality({ j \in 1..Len(sorted) :
                             PackedCompare(sorted[j], g) <= 0 })
    IN  SubSeq(sorted, 1, k) \o <<g>> \o SubSeq(sorted, k + 1, Len(sorted))

RECURSIVE PackedSortFrom(_, _, _)
PackedSortFrom(s, i, sorted) ==
    IF i > Len(s) THEN sorted
    ELSE PackedSortFrom(s, i + 1, PackedInsert(sorted, s[i]))

\* [...sized].sort(...)
Ordered(sz) == PackedSortFrom(sz, 1, <<>>)

\* d3.pack().size([w, h]).padding(5) on a root whose children are at most
\* two leaves.  No radius accessor is set, so a leaf starts with radius
\* sqrt(value); packSiblings puts one circle at the origin and two circles
\* tangent on the x axis (a.x = -b.r, b.x = a.r) and returns a.r (+ b.r);
\* the second pass repeats this with every radius enlarged by
\* padding * root.r / min(w, h); translateChild then scales by
\* k = min(w, h) / (2 * root.r).  A root of radius 0 gives k = Infinity and
\* NaN leaves: finite is FALSE.
Pack(ordered) ==
    LET n == Len(ordered)
        side == Min(Width - 2 * OuterPad, Height - 2 * OuterPad)
        s == [i \in 1..n |-> Sqrt(ordered[i].value)]
        r1 == IF n = 1 THEN s[1] ELSE s[1] + s[2]
        p == (PackPadding * r1) \div side
        rootR == r1 + (n + 1) * p
        x == [i \in 1..n |->
                 IF n = 1 THEN 0
                 ELSE IF i = 1 THEN 0 - (s[2] + p) ELSE s[1] + p]
        Scaled(v) == ((side \div 2) * PosUnit * v) \div rootR
    IN  [i \in 1..n |->
            IF rootR = 0
            THEN [data |-> ordered[i], finite |-> FALSE, x |-> 0, y |-> 0, r |-> 0]
            ELSE [data |-> ordered[i], finite |-> TRUE,
                  x |-> ((Width - 2 * OuterPad) \div 2) * PosUnit + Scaled(x[i])
                          + OuterPad * PosUnit,
                  y |-> ((Height - 2 * OuterPad) \div 2) * PosUnit
                          + OuterPad * PosUnit,
                  r |-> Scaled(s[i])]]

PackedLayout(mode, sz) == IF mode # "packed" THEN <<>> ELSE Pack(Ordered(sz))

packedLayout == PackedLayout(layoutMode, sized)

----------------------------------------------------------------------------
(* The scatter layout, BubbleChart.tsx: seeding, targets and starts *)

\* 32-bit words as two 16-bit halves
Word == 65536
HashApp == [hi |-> 40503, lo |-> 31153]     \* 2654435761
HashSeed == [hi |-> 15470, lo |-> 62303]    \* 1013904223

\* n * c modulo 2^32, for 0 <= n < 2^15
Mul32(n, c) ==
    LET low == n * c.lo
    IN  [hi |-> (n * c.hi + low \div Word) % Word, lo |-> low % Word]

Add32(a, b) ==
    LET low == a.lo + b.lo
    IN  [hi |-> (a.hi + b.hi + low \div Word) % Word, lo |-> low % Word]

\* (appid * 2654435761 + seed * 1013904223) >>> 0: the seed of the
\* generator of one item
rngForApp(appid, seed) == Add32(Mul32(appid, HashApp), Mul32(seed, HashSeed))

\* the k-th value drawn from the mulberry32 generator seeded with a
mulberry32(a, k) == [seed |-> a, draw |-> k]

\* the offset of index i of n from the centre: radius
\* blobRadius * sqrt(i / (n - 1)) at the angle i * goldenAngle, kept as
\* <<i, i, n - 1>>; index 0 and a single item have offset zero
Spiral(i, n) == IF n <= 1 \/ i = 0 THEN <<0, 0, 1>> ELSE <<i, i, n - 1>>

\* const nodes = sized.map((d, i) => ...), prev being the memo that is used
ScatterNodes(sz, seed, prev) ==
    [j \in 1..Len(sz) |->
        LET d == sz[j]
            rng == rngForApp(d.appid, seed)
            target == [spiral |-> Spiral(j - 1, Len(sz)),
                       jitter |-> <<mulberry32(rng, 1), mulberry32(rng, 2)>>]
        IN  [data |-> d,
             target |-> target,
             start |-> IF d.appid \in DOMAIN prev
                       THEN [old |-> prev[d.appid]]
                       ELSE [near |-> target,
                             jitter |-> <<mulberry32(rng, 3), mulberry32(rng, 4),
                                          mulberry32(rng, 5), mulberry32(rng, 6)>>]]]

\* The force passes and the clamp move every node from its start towards
\* its target among the other nodes.  The position they give a node is kept
\* as a term: the node itself and the set of all nodes of the run.
Simulate(nodes) ==
    [j \in 1..Len(nodes) |->
        [data |-> nodes[j].data,
         pos |-> [of |-> nodes[j], among |-> Range(nodes)]]]

\* the nodes computeNodesAsync resolves with
ScatterLayout(sz, seed, prev) == Simulate(ScatterNodes(sz, seed, prev))

PositionOf(layout, id) ==
    (CHOOSE l \in Range(layout) : l.data.appid = id).pos

----------------------------------------------------------------------------
(* The scatter effect, BubbleChart.tsx: the deferred computation           *)
(*                                                                         *)
(* The force passes are d3-force code: the position they leave a node at   *)
(* is an input of the run, drawn from SimPoints.  Positions and radii are  *)
(* in 1/PosUnit.                                                           *)

MaxTimers == 2      \* cap on the timeouts pending at once
CollidePad == 9     \* const pad = 0.9
OverlapSlack == 5   \* the 0.5 of dist < a.r + b.r + pad - 0.5
OverlapStop == 6    \* if (overlaps > 6) break
CleanupMax == 140   \* if (n <= 140)

\* where a force pass may leave a node: a point well inside the canvas and
\* a point beyond its right-hand margin
SimPoints == { [x |-> 3000, y |-> 3600], [x |-> 9400, y |-> 3600] }

\* the positions one pass may leave n nodes at, by index
SimOutcomes(n) == [1..n -> SimPoints]

\* d3.max(sized.map((s) => s.r)) ?? 1
MaxRNow(sz) ==
    IF Len(sz) = 0 THEN PosUnit
    ELSE SeqMax([i \in 1..Len(sz) |-> sz[i].r])

\* prevMaxR != null && Math.abs(maxRNow - prevMaxR) / prevMaxR > 0.2
significantRadiusChange(prevMaxR, maxRNow) ==
    /\ prevMaxR # NoMaxR
    /\ 5 * (Max(maxRNow, prevMaxR) - Min(maxRNow, prevMaxR)) > prevMaxR

\* the clamp to bounds of one node
ClampToBounds(node) ==
    [node EXCEPT
        !.x = Max(node.r + OuterPad * PosUnit,
                  Min(Width * PosUnit - node.r - OuterPad * PosUnit, node.x)),
        !.y = Max(node.r + OuterPad * PosUnit,
                  Min(Height * PosUnit - node.r - OuterPad * PosUnit, node.y))]

\* dist < a.r + b.r + pad - 0.5, on the squares
Overlapping(a, b) ==
    LET dx == a.x - b.x
        dy == a.y - b.y
        reach == a.r + b.r + CollidePad - OverlapSlack
    IN  dx * dx + dy * dy < reach * reach

\* the count of the overlap scan, which stops counting past OverlapStop
Overlaps(nodes) ==
    Min(OverlapStop + 1,
        Cardinality({ p \in (1..Len(nodes)) \X (1..Len(nodes)) :
                        p[1] < p[2] /\ Overlapping(nodes[p[1]], nodes[p[2]]) }))

\* new Map filled by nodes.forEach: a later node of the same appid wins
MemoOf(nodes) ==
    [a \in { nodes[j].data.appid : j \in 1..Len(nodes) } |->
        LET j == CHOOSE k \in 1..Len(nodes) :
                    /\ nodes[k].data.appid = a
                    /\ \A m \in 1..Len(nodes) :
                           nodes[m].data.appid = a => m <= k
        IN  [x |-> nodes[j].x, y |-> nodes[j].y]]

\* One run of the promise executor on the refs as they are when it runs:
\* out2 is where sim1 and sim2 leave the nodes, out3 where sim3 leaves them.
\* Gives the nodes resolved with, and the new values of the two refs.
computeNodesAsync(sz, seed, posRef, maxRRef, out2, out3) ==
    LET maxRNow == MaxRNow(sz)
        prev == IF significantRadiusChange(maxRRef, maxRNow)
                THEN EmptyMap ELSE posRef
        nodes == ScatterNodes(sz, seed, prev)
        moved == [j \in 1..Len(sz) |->
                    [data |-> sz[j], target |-> nodes[j].target,
                     x |-> out2[j].x, y |-> out2[j].y, r |-> sz[j].r]]
        clamped == [j \in 1..Len(sz) |-> ClampToBounds(moved[j])]
        cleaned == IF Len(sz) <= CleanupMax /\ Overlaps(clamped) > 0
                   THEN [j \in 1..Len(sz) |->
                            [clamped[j] EXCEPT !.x = out3[j].x, !.y = out3[j].y]]
                   ELSE clamped
    IN  [nodes |-> cleaned, posRef |-> MemoOf(cleaned), maxRRef |-> maxRNow]

\* the timeout the effect sets: compute() closed over sized and shuffleSeed
\* of the render that set it; dead once the chart that set it is unmounted
Timer(sz, seed) == [sized |-> sz, shuffleSeed |-> seed, dead |-> FALSE]

\* the chart is rendered while the selection is not empty
ChartMounted == Len(selection) > 0

\* the chart right after its first render: the effect has set one timeout
ScatterMounted ==
    /\ scatterLayout = <<>>
    /\ scatterPosRef = EmptyMap
    /\ scatterMaxRRef = NoMaxR
    /\ timers = <<Timer(sized, shuffleSeed)>>
    /\ processing = TRUE

\* The render of the chart with the layout mode, the sized items and the
\* seed given: the effect runs when one of them is a new value, and a chart
\* that is no longer rendered loses its state.
RenderChart(mode, sz, seed, sameProps) ==
    IF Len(sz) = 0
    THEN /\ scatterLayout' = <<>>
         /\ scatterPosRef' = EmptyMap
         /\ scatterMaxRRef' = NoMaxR
         /\ timers' = [j \in 1..Len(timers) |-> [timers[j] EXCEPT !.dead = TRUE]]
         /\ UNCHANGED processing
    ELSE IF ChartMounted /\ sameProps
    THEN UNCHANGED scatterVars
    ELSE IF mode # "scatter"
    THEN /\ scatterLayout' = <<>>
         /\ processing' = FALSE
         /\ UNCHANGED <<scatterPosRef, scatterMaxRRef, timers>>
    ELSE /\ Len(timers) < MaxTimers
         /\ timers' = Append(timers, Timer(sz, seed))
         /\ processing' = TRUE
         /\ UNCHANGED <<scatterLayout, scatterPosRef, scatterMaxRRef>>

\* What the chart does in the render that follows a handler of App.  sized
\* is recomputed whenever the games prop is, and that whenever games,
\* hiddenAppids, topN or showAll is set to a new value.
ScatterEffect ==
    \E g \in {games'}, h \in {hiddenAppids'}, n \in {topN'}, a \in {showAll'},
       mode \in {layoutMode'}, seed \in {shuffleSeed'} :
        RenderChart(mode, Sized(Selection(VisibleGames(g, h), n, a)), seed,
                    /\ mode = layoutMode /\ seed = shuffleSeed
                    /\ g = games /\ h = hiddenAppids
                    /\ n = topN /\ a = showAll)

\* the oldest timeout runs: compute() to its end
compute ==
    /\ Len(timers) > 0
    /\ LET t == Head(timers)
       IN  IF t.dead
           THEN UNCHANGED <<scatterLayout, scatterPosRef, scatterMaxRRef>>
           ELSE \E out2, out3 \in SimOutcomes(Len(t.sized)) :
                  LET run == computeNodesAsync(t.sized, t.shuffleSeed,
                                               scatterPosRef, scatterMaxRRef,
                                               out2, out3)
                  IN  /\ scatterLayout' = run.nodes
                      /\ scatterPosRef' = run.posRef
                      /\ scatterMaxRRef' = run.maxRRef
    /\ timers' = Tail(timers)
    /\ processing' = FALSE
    /\ mergeResult' = "none"
    /\ UNCHANGED <<rawGames, manualGames, mergeMap, mergeFrom, mergeTo,
                   unmergedGames, games, error, hiddenAppids,
                   selectedHiddenAppid, topNInput, topN, showAll, loading,
                   walkVars, controlVars>>

\* const layoutLeaves = layoutMode === "packed" ? packedLayout : scatterLayout
layoutLeaves == IF layoutMode = "packed" THEN packedLayout ELSE scatterLayout

\* onContextMenu and the shift-click of a bubble of the displayed layout
onContextMenu(appid) ==
    /\ ChartMounted
    /\ appid \in { layoutLeaves[j].data.appid : j \in 1..Len(layoutLeaves) }
    /\ hiddenAppids' = ToggleSet(hiddenAppids, appid)
    /\ Cardinality(hiddenAppids') <= MaxHidden
    /\ mergeResult' = "none"
    /\ UNCHANGED <<rawGames, manualGames, mergeMap, mergeFrom, mergeTo,
                   unmergedGames, games, error, selectedHiddenAppid, topNInput,
                   topN, showAll, loading, walkVars, controlVars>>

----------------------------------------------------------------------------
(* The chart controls, on loaded catalogs of at most two records *)

MaxSeed == 2        \* cap on shuffleSeed

\* playtimes of 0 included: a library with games that were never played
ChartCatalogs ==
    { << Raw(1, "A", 600), Raw(2, "B", 0) >>,
      << Raw(2, "B", 60), Raw(3, "C", 960) >>,
      << Raw(1, "A", 120), Raw(2, "B", 120) >>,
      << Raw(2, "B", 120), Raw(1, "A", 120) >>,
      << Raw(1, "A", 240), Raw(2, "B", 540) >>,
      << Raw(3, "C", 60) >> }

InitChart ==
    /\ rawGames \in ChartCatalogs
    /\ manualGames = <<>>
    /\ mergeMap = EmptyMap
    /\ mergeFrom = NoSel
    /\ mergeTo = NoSel
    /\ unmergedGames = Aggregation(rawGames, manualGames, mergeMap, <<>>, <<>>)[1]
    /\ games = Aggregation(rawGames, manualGames, mergeMap, <<>>, <<>>)[2]
    /\ error = ""
    /\ hiddenAppids = {}
    /\ selectedHiddenAppid = NoSel
    /\ topNInput = TopNInit
    /\ topN = TopNInit
    /\ showAll = FALSE
    /\ loading = 0
    /\ mergeResult = "none"
    /\ WalkIdle
    /\ ChartInit
    /\ ScatterMounted

\* the Layout select
setLayoutMode(m) ==
    /\ Len(games) > 0
    /\ layoutMode' = m
    /\ mergeResult' = "none"
    /\ UNCHANGED <<rawGames, manualGames, mergeMap, mergeFrom, mergeTo,
                   unmergedGames, games, error, hiddenAppids,
                   selectedHiddenAppid, topNInput, topN, showAll, loading,
                   walkVars, shuffleSeed, userZoom, pan, dragRef>>

\* the Shuffle button, disabled unless the layout is scatter
shuffle ==
    /\ Len(games) > 0
    /\ layoutMode = "scatter"
    /\ shuffleSeed < MaxSeed
    /\ shuffleSeed' = shuffleSeed + 1
    /\ mergeResult' = "none"
    /\ UNCHANGED <<rawGames, manualGames, mergeMap, mergeFrom, mergeTo,
                   unmergedGames, games, error, hiddenAppids,
                   selectedHiddenAppid, topNInput, topN, showAll, loading,
                   walkVars, layoutMode, userZoom, pan, dragRef>>

\* the controls alone: the scatter state of the chart is not followed
NextChart ==
    \/ \E m \in {"scatter", "packed"} :
           setLayoutMode(m) /\ UNCHANGED scatterVars
    \/ shuffle /\ UNCHANGED scatterVars
    \/ \E a \in GameIds(games) : toggleHide(a) /\ UNCHANGED scatterVars
    \/ clearHidden /\ UNCHANGED scatterVars

SpecChart == InitChart /\ [][NextChart]_vars

\* the chart with its scatter state, on two of the catalogs
ScatterCatalogs ==
    { << Raw(1, "A", 600), Raw(2, "B", 0) >>,
      << Raw(1, "A", 120), Raw(2, "B", 120) >> }

InitScatter == InitChart /\ rawGames \in ScatterCatalogs

\* every handler with the render that follows it, and the timeouts
NextScatter ==
    \/ \E m \in {"scatter", "packed"} : setLayoutMode(m) /\ ScatterEffect
    \/ shuffle /\ ScatterEffect
    \/ \E a \in GameIds(games) : onContextMenu(a) /\ ScatterEffect
    \/ clearHidden /\ ScatterEffect
    \/ compute

SpecScatter == InitScatter /\ [][NextScatter]_vars

----------------------------------------------------------------------------
(* The viewport, BubbleChart.tsx: wheel zoom, drag pan, reset *)

ZoomMin == 50       \* clamp(..., 0.5, 4), in 1/ZoomUnit
ZoomMax == 400
ZoomOut == 90       \* zoomFactor 0.9
ZoomIn == 110       \* zoomFactor 1.1
BaseZoom == 125     \* const baseZoom = 1.25
MaxPan == 60        \* cap on |pan.x| and |pan.y|

\* pointer positions, in viewBox units (the svg is shown at its viewBox size)
WheelPoints == { [x |-> 0, y |-> 0], [x |-> 100, y |-> 100] }
PointerPoints == { [x |-> 100, y |-> 100], [x |-> 150, y |-> 150] }
WheelDeltas == { -100, 100 }    \* e.deltaY

\* mutant: a clamp without its upper limit
clampNoUpper(v, lo, hi) == Max(lo, v)

\* Math.max(lo, Math.min(hi, v))
clamp(v, lo, hi) == Max(lo, Min(hi, v))

PanInRange(p) ==
    /\ p.x >= 0 - MaxPan /\ p.x <= MaxPan
    /\ p.y >= 0 - MaxPan /\ p.y <= MaxPan

\* m - k * (m - p) with k = newZoom / oldZoom
ZoomAbout(m, p, newZoom, oldZoom) == m - (newZoom * (m - p)) \div oldZoom

handleWheel(m, deltaY) ==
    LET mx == m.x
        my == m.y
        zoomFactor == IF deltaY > 0 THEN ZoomOut ELSE ZoomIn
        newZoom == clamp((userZoom * zoomFactor) \div ZoomUnit, ZoomMin, ZoomMax)
    IN  /\ Len(selection) > 0
        /\ userZoom' = newZoom
        /\ pan' = [x |-> ZoomAbout(mx, pan.x, newZoom, userZoom),
                   y |-> ZoomAbout(my, pan.y, newZoom, userZoom)]
        /\ PanInRange(pan')
        /\ mergeResult' = "none"
        /\ UNCHANGED <<rawGames, manualGames, mergeMap, mergeFrom, mergeTo,
                       unmergedGames, games, error, hiddenAppids,
                       selectedHiddenAppid, topNInput, topN, showAll, loading,
                       walkVars, layoutMode, shuffleSeed, dragRef,
                   scatterVars>>

handlePointerDown(e) ==
    /\ Len(selection) > 0
    /\ dragRef' = [dragging |-> TRUE, lastX |-> e.x, lastY |-> e.y]
    /\ mergeResult' = "none"
    /\ UNCHANGED <<rawGames, manualGames, mergeMap, mergeFrom, mergeTo,
                   unmergedGames, games, error, hiddenAppids,
                   selectedHiddenAppid, topNInput, topN, showAll, loading,
                   walkVars, layoutMode, shuffleSeed, userZoom, pan,
                   scatterVars>>

handlePointerMove(e) ==
    /\ Len(selection) > 0
    /\ dragRef.dragging
    /\ dragRef' = [dragRef EXCEPT !.lastX = e.x, !.lastY = e.y]
    /\ pan' = [x |-> pan.x + (e.x - dragRef.lastX),
               y |-> pan.y + (e.y - dragRef.lastY)]
    /\ PanInRange(pan')
    /\ mergeResult' = "none"
    /\ UNCHANGED <<rawGames, manualGames, mergeMap, mergeFrom, mergeTo,
                   unmergedGames, games, error, hiddenAppids,
                   selectedHiddenAppid, topNInput, topN, showAll, loading,
                   walkVars, layoutMode, shuffleSeed, userZoom,
                   scatterVars>>

\* onPointerUp and onPointerLeave
handlePointerUp ==
    /\ Len(selection) > 0
    /\ dragRef' = [dragRef EXCEPT !.dragging = FALSE]
    /\ mergeResult' = "none"
    /\ UNCHANGED <<rawGames, manualGames, mergeMap, mergeFrom, mergeTo,
                   unmergedGames, games, error, hiddenAppids,
                   selectedHiddenAppid, topNInput, topN, showAll, loading,
                   walkVars, layoutMode, shuffleSeed, userZoom, pan,
                   scatterVars>>

\* onDoubleClick
resetView ==
    /\ Len(selection) > 0
    /\ userZoom' = ZoomUnit
    /\ pan' = [x |-> 0, y |-> 0]
    /\ mergeResult' = "none"
    /\ UNCHANGED <<rawGames, manualGames, mergeMap, mergeFrom, mergeTo,
                   unmergedGames, games, error, hiddenAppids,
                   selectedHiddenAppid, topNInput, topN, showAll, loading,
                   walkVars, layoutMode, shuffleSeed, dragRef,
                   scatterVars>>

\* the chart showing a catalog of one record
InitView == InitChart /\ Len(rawGames) = 1

NextView ==
    \/ \E m \in WheelPoints, d \in WheelDeltas : handleWheel(m, d)
    \/ \E e \in PointerPoints : handlePointerDown(e)
    \/ \E e \in PointerPoints : handlePointerMove(e)
    \/ handlePointerUp
    \/ resetView

SpecView == InitView /\ [][NextView]_vars

----------------------------------------------------------------------------
(* Vocabulary of the properties *)

\* the ids met by following n edges from a, a itself excluded unless revisited
RECURSIVE Chain(_, _, _)
Chain(map, a, n) ==
    IF n = 0 \/ a \notin DOMAIN map THEN {}
    ELSE {map[a]} \cup Chain(map, map[a], n - 1)

Reaches(map, a, b) == b \in Chain(map, a, Cardinality(DOMAIN map))

Acyclic(map) == \A a \in DOMAIN map : ~Reaches(map, a, a)

\* the aggregation has run on the current raw list, manual list and map
Aggregated == Len(rawGames) > 0 \/ Len(manualGames) > 0

RootOf(i) == findMergeRoot(unmergedGames[i].appid, mergeMap)

\* the positions of the unmerged set that open a new merge root
FirstOfRoot ==
    { i \in 1..Len(unmergedGames) : \A j \in 1..(i - 1) : RootOf(j) # RootOf(i) }

NthFirst(k) ==
    CHOOSE i \in FirstOfRoot : Cardinality({ j \in FirstOfRoot : j <= i }) = k

Contributors(r) ==
    SelectSeq(unmergedGames, LAMBDA g : findMergeRoot(g.appid, mergeMap) = r)

NoDuplicates(s) == \A i, j \in 1..Len(s) : i # j => s[i] # s[j]

----------------------------------------------------------------------------
(* Merge map *)

\* C1: starting from an acyclic merge map, after any sequence of addMerge,
\* removeMerge and clearMerges the merge map contains no cycle.
C1_MergeMapAcyclic == Acyclic(mergeMap)

\* C2: an addMerge(from, to) for which following the existing edges from `to`
\* reaches `from` is rejected with the loop error and leaves the map unchanged.
C2_CycleRejected ==
    [][ ( /\ addMerge
          /\ mergeFrom # NoSel /\ mergeTo # NoSel /\ mergeFrom # mergeTo
          /\ Reaches(mergeMap, mergeTo, mergeFrom) )
        => ( /\ mergeMap' = mergeMap
             /\ error' = "That merge would create a loop." ) ]_vars

\* C3: the canonical set has exactly one entry per merge root of the unmerged
\* set, in the order the roots first occur, and the weight of each entry is
\* the sum of the weights of all unmerged items that resolve to its root.
C3_CanonicalWeightIsSum ==
    Aggregated =>
        /\ Len(games) = Cardinality(FirstOfRoot)
        /\ \A k \in 1..Len(games) :
               games[k].hours = SumHours(Contributors(RootOf(NthFirst(k))))

\* catalog items 1 (5 h) and 2 (8 h) with the edge 1 -> 2: one entry of 13 h
C3_Witness ==
    /\ Aggregated
    /\ 1 \in DOMAIN mergeMap /\ mergeMap[1] = 2
    /\ Acyclic(mergeMap)
    /\ Len(games) = 1
    /\ games[1].appid = 2 /\ games[1].hours = 13

\* C4: findMergeRoot terminates on every map, follows at most as many edges
\* as the map has ids, and never follows the edge of one node twice.
C4_WalkBounded ==
    /\ [](/\ Len(walkTrail) <= Cardinality(DOMAIN mergeMap)
          /\ NoDuplicates(walkTrail))
    /\ <>(walkPc = "done")

\* a walk that went once round a cycle through every id of the map
C4_Witness ==
    /\ walkPc = "done"
    /\ walkCur \in walkSeen
    /\ Len(walkTrail) = MaxWalkId

\* C5: addMerge with from = to, or with an empty selection, is refused:
\* nothing but the record of the call changes.
C5_InvalidRefused ==
    [][ ( /\ addMerge
          /\ (mergeFrom = NoSel \/ mergeTo = NoSel \/ mergeFrom = mergeTo) )
        => UNCHANGED <<mergeMap, mergeFrom, mergeTo, unmergedGames, games,
                       error>> ]_vars

C5_Witness ==
    /\ mergeResult = "invalid"
    /\ mergeFrom # NoSel
    /\ mergeFrom = mergeTo

\* C6: addMerge whose from or to is not the id of an item of the current
\* unmerged set is rejected and leaves the merge map unchanged.
C6_UnknownIdRejected ==
    [][ ( /\ addMerge
          /\ (mergeFrom \notin AllForMerge \/ mergeTo \notin AllForMerge) )
        => mergeMap' = mergeMap ]_vars

----------------------------------------------------------------------------
(* Hidden set and ranked selection *)

visibleGames == VisibleGames(games, hiddenAppids)

\* C7: hiding a visible item X removes X from the visible pool while X stays
\* in the unmerged set and in the canonical set, and toggling X once more
\* gives back, as a set, the pool of before the hide.
C7_HideUnhideRoundTrip ==
    [][ \A x \in (hiddenAppids' \ hiddenAppids) \cap GameIds(visibleGames) :
          toggleHide(x) =>
            /\ x \notin GameIds(visibleGames')
            /\ x \in GameIds(games')
            /\ x \in GameIds(unmergedGames')
            /\ Range(VisibleGames(games', ToggleSet(hiddenAppids', x)))
                 = Range(visibleGames) ]_vars

\* an item that was hidden: out of the pool, still in both sets
C7_Witness ==
    \E x \in hiddenAppids :
        /\ x \in GameIds(games)
        /\ x \in GameIds(unmergedGames)
        /\ x \notin GameIds(visibleGames)
        /\ Len(visibleGames) > 0

\* C8: the ranked selection is ordered by weight descending, ties broken by
\* ascending item id.
C8_SelectionOrdered ==
    \A i, j \in 1..Len(selection) :
        i < j =>
            \/ selection[i].hours > selection[j].hours
            \/ /\ selection[i].hours = selection[j].hours
               /\ selection[i].appid < selection[j].appid

\* C9: with showAll the selection holds the whole visible pool; otherwise it
\* holds exactly min(|pool|, max(5, n)) items of the pool, and no item left
\* out weighs more than an item taken.
C9_SelectionSize ==
    /\ Range(selection) \subseteq Range(visibleGames)
    /\ showAll =>
           /\ Len(selection) = Len(visibleGames)
           /\ Range(selection) = Range(visibleGames)
    /\ ~showAll =>
           /\ Len(selection) = Min(Len(visibleGames), Max(5, topN))
           /\ Cardinality(Range(selection)) = Len(selection)
           /\ \A g \in Range(visibleGames) \ Range(selection) :
                  \A h \in Range(selection) : g.hours <= h.hours

\* a pool larger than the cut, with items left out
C9_Witness ==
    /\ ~showAll
    /\ Len(visibleGames) > Max(5, topN)
    /\ Len(selection) = topN
    /\ \E g \in Range(visibleGames) \ Range(selection) :
           \E h \in Range(selection) : g.hours < h.hours

----------------------------------------------------------------------------
(* Unmerged set *)

CountIn(s, Test(_)) == Cardinality({ i \in 1..Len(s) : Test(s[i]) })

\* the first entry of s that passes Test
FirstThat(s, Test(_)) ==
    s[CHOOSE i \in 1..Len(s) :
          Test(s[i]) /\ \A j \in 1..(i - 1) : ~Test(s[j])]

\* C10 as stated: the unmerged set never holds two entries with the same id,
\* and for an id that is both catalog data and a manual item the catalog
\* entry is the one kept.
C10_UnmergedDeduplicated ==
    /\ \A i, j \in 1..Len(unmergedGames) :
           i # j => unmergedGames[i].appid # unmergedGames[j].appid
    /\ \A i \in 1..Len(unmergedGames) :
           (\E r \in Range(rawGames) :
                RawValid(r) /\ r.appid = unmergedGames[i].appid)
               => ~unmergedGames[i].manual

\* C10 as amended: the unmerged set holds one entry for every valid catalog
\* record and one for every manual item, so an id that is both appears in
\* both forms; it is the metadata lookup of the aggregation that holds one
\* entry per id, and there the first catalog entry is the one kept, a manual
\* entry only when the id has no catalog entry.
C10_LookupDeduplicated ==
    Aggregated =>
        /\ \A id \in GameIds(unmergedGames) :
               /\ CountIn(unmergedGames, LAMBDA g : g.appid = id /\ ~g.manual)
                    = CountIn(rawGames, LAMBDA r : RawValid(r) /\ r.appid = id)
               /\ CountIn(unmergedGames, LAMBDA g : g.appid = id /\ g.manual)
                    = CountIn(manualGames, LAMBDA m : m.appid = id)
        /\ DOMAIN MetaLookup(unmergedGames) = GameIds(unmergedGames)
        /\ \A id \in GameIds(unmergedGames) :
               MetaLookup(unmergedGames)[id] =
                   IF \E g \in Range(unmergedGames) : g.appid = id /\ ~g.manual
                   THEN FirstThat(unmergedGames,
                                  LAMBDA g : g.appid = id /\ ~g.manual)
                   ELSE FirstThat(unmergedGames, LAMBDA g : g.appid = id)

\* id 2 both as a catalog record and as a manual item
C10_Witness ==
    /\ Aggregated
    /\ \E i, j \in 1..Len(unmergedGames) :
           /\ unmergedGames[i].appid = unmergedGames[j].appid
           /\ ~unmergedGames[i].manual
           /\ unmergedGames[j].manual

----------------------------------------------------------------------------
(* Claims: weights, metadata and filtering of the aggregation *)

\* C11: every item of the unmerged set and every canonical entry has a
\* weight that is at least 0, whatever the catalog records and the stored
\* manual items were: a negative weight is coerced to 0 before it is summed.
C11_WeightsNonNegative ==
    /\ \A i \in 1..Len(unmergedGames) : unmergedGames[i].hours >= 0
    /\ \A i \in 1..Len(games) : games[i].hours >= 0

\* C12: the name (and with it the image and the link, which follow the id
\* of the same record) of a canonical entry comes from the first catalog
\* item whose id is the root id; only if no catalog item has that id, from
\* the first manual item with that id, whichever contributor of the root is
\* processed first.
C12_MetadataFromRoot ==
    Aggregated =>
        \A k \in 1..Len(games) :
            LET r == RootOf(NthFirst(k))
                IsCatalog(g) == g.appid = r /\ ~g.manual
                IsItem(g) == g.appid = r
            IN  IF \E g \in Range(unmergedGames) : IsCatalog(g)
                THEN /\ games[k].name = FirstThat(unmergedGames, IsCatalog).name
                     /\ games[k].appid = r
                ELSE (\E g \in Range(unmergedGames) : IsItem(g))
                     => /\ games[k].name = FirstThat(unmergedGames, IsItem).name
                        /\ games[k].appid = r

\* the entry of root 2 opened by catalog item 1 (edge 1 -> 2), id 2 being
\* both the catalog record "B" and the manual item "G": the entry is "B"
C12_Witness ==
    /\ Aggregated
    /\ \E k \in 1..Len(games) :
           LET r == RootOf(NthFirst(k))
           IN  /\ unmergedGames[NthFirst(k)].appid # r
               /\ \E g, h \in Range(unmergedGames) :
                      /\ g.appid = r /\ ~g.manual
                      /\ h.appid = r /\ h.manual /\ h.name # g.name
                      /\ games[k].name = g.name

\* the catalog entries of an unmerged set, as [appid, name] pairs
CatalogPart(s) ==
    LET c == SelectSeq(s, LAMBDA g : ~g.manual)
    IN  [i \in 1..Len(c) |-> <<c[i].appid, c[i].name>>]

\* the records of a raw list that have an id and a name, as [appid, name] pairs
ValidPart(list) ==
    LET c == SelectSeq(list, LAMBDA r : r.appid # 0 /\ r.name # "")
    IN  [i \in 1..Len(c) |-> <<c[i].appid, c[i].name>>]

\* C13: a raw record enters the unmerged set exactly if it has both an id
\* and a name; a record missing either is dropped without an error being
\* set and without any effect on the entries of the other records.
C13_MalformedDropped ==
    [][ \A list \in Catalogs :
            (loadResolve(list) /\ Len(list) > 0)
            => /\ CatalogPart(unmergedGames') = ValidPart(list)
               /\ error' = error ]_vars

\* a loaded list with a record that lacks an id or a name, and no error
C13_Witness ==
    /\ \E r \in Range(rawGames) : r.appid = 0 \/ r.name = ""
    /\ \E r \in Range(rawGames) : r.appid # 0 /\ r.name # ""
    /\ CatalogPart(unmergedGames) = ValidPart(rawGames)
    /\ Len(unmergedGames) < Len(rawGames) + Len(manualGames)
    /\ error = ""

----------------------------------------------------------------------------
(* Claims: sizing and layouts of the chart *)

\* C14: every sizing radius lies between the minimum radius 6 and
\* 0.15 x the smaller canvas dimension, radii do not decrease with the
\* weight, and an item of weight 0 gets exactly the radius 6, also when
\* every weight of the set is 0.
C14_RadiusRange ==
    /\ \A i \in 1..Len(sized) :
           /\ MinRadius * PosUnit <= sized[i].r
           /\ sized[i].r <= MaxRadius * PosUnit
           /\ sized[i].value = 0 => sized[i].r = MinRadius * PosUnit
    /\ \A i, j \in 1..Len(sized) :
           sized[i].value <= sized[j].value => sized[i].r <= sized[j].r

\* C15: in packed mode the radius of every emitted node is the sizing
\* radius of its item: an item of weight 0 is placed with radius 6 and an
\* item of larger weight with a strictly larger radius.
C15_PackedRadiusIsSizing ==
    layoutMode = "packed" =>
        /\ \A i \in 1..Len(packedLayout) :
               /\ packedLayout[i].finite
               /\ packedLayout[i].r = packedLayout[i].data.r
               /\ packedLayout[i].data.value = 0
                    => packedLayout[i].r = MinRadius * PosUnit
        /\ \A i, j \in 1..Len(packedLayout) :
               packedLayout[i].data.value > packedLayout[j].data.value
                   => packedLayout[i].r > packedLayout[j].r

\* the orders in which the ranked selection can hand the items of sz to the
\* chart: heaviest first, equal weights in either order
Reorderings(sz) ==
    { q \in [1..Len(sz) -> Range(sz)] :
        /\ Range(q) = Range(sz)
        /\ \A i, j \in 1..Len(sz) : i < j => q[i].hours >= q[j].hours }

\* C16: two scatter computations on the same ids, weights and seed, both
\* with an empty memo, give every id the same position, whatever the order
\* of the items in the input collection.
C16_ScatterOrderIndependent ==
    layoutMode = "scatter" =>
        \A other \in Reorderings(sized) :
            \A id \in GameIds(sized) :
                PositionOf(ScatterLayout(sized, shuffleSeed, EmptyMap), id)
                    = PositionOf(ScatterLayout(other, shuffleSeed, EmptyMap), id)

\* the one arrangement of a set of sized items by value, largest first, and
\* by id among equal values
CanonicalOrder(S) ==
    CHOOSE q \in [1..Cardinality(S) -> S] :
        /\ Range(q) = S
        /\ \A i, j \in 1..Cardinality(S) :
               i < j => \/ q[i].value > q[j].value
                        \/ q[i].value = q[j].value /\ q[i].appid < q[j].appid

\* C17: the packed layout is a function of the set of sized items alone:
\* whatever the order of the input collection, the run seed and the earlier
\* layouts, it is the packing of the items arranged by value and id.
C17_PackedFromSet ==
    layoutMode = "packed" =>
        /\ Cardinality(Range(sized)) = Len(sized)
        /\ packedLayout = Pack(CanonicalOrder(Range(sized)))

\* packed after a shuffle, two items of equal weight given in descending id
\* order and laid out in ascending id order
C17_Witness ==
    /\ layoutMode = "packed"
    /\ shuffleSeed > 0
    /\ Len(sized) = 2
    /\ sized[1].value = sized[2].value
    /\ sized[1].appid > sized[2].appid
    /\ packedLayout[1].data.appid < packedLayout[2].data.appid

----------------------------------------------------------------------------
(* Claims: the viewport *)

\* C19: after any sequence of wheel zooms, pans and resets the user zoom
\* lies between 0.5 and 4, and a reset sets the zoom to 1 and the pan to
\* (0, 0).
C19_ZoomClamped ==
    /\ [](ZoomUnit <= 2 * userZoom /\ userZoom <= 4 * ZoomUnit)
    /\ [][ resetView => (userZoom' = ZoomUnit /\ pan' = [x |-> 0, y |-> 0]) ]_vars

\* the zoom held at its upper limit by the clamp
C19_Witness ==
    /\ userZoom = 4 * ZoomUnit
    /\ (userZoom * ZoomIn) \div ZoomUnit > 4 * ZoomUnit

\* the image of a user-space coordinate under the base transform
\* translate(c) scale(baseZoom) translate(-c)
BaseTransform(v, c) == c + (BaseZoom * (v - c)) \div ZoomUnit

\* the user-space coordinate the base transform maps to the screen
\* coordinate m
BaseInverse(m, c) == c + (ZoomUnit * (m - c)) \div BaseZoom

\* where the layout point that was under the cursor coordinate m before a
\* zoom step is shown after it: its user-space image u = pan + zoom * p
\* becomes pan' + zoom' * p = pan' + (zoom' / zoom) * (u - pan)
ShownAfter(m, c, p, pNew, zoom, zoomNew) ==
    BaseTransform(pNew + (zoomNew * (BaseInverse(m, c) - p)) \div zoom, c)

Distance(a, b) == IF a >= b THEN a - b ELSE b - a

\* C20: a wheel zoom at the screen point m leaves the layout point under
\* the cursor where it is: the point the composed transform (user pan and
\* zoom, then the base zoom about the centre) mapped to m before the step
\* is mapped to m after it, also when the new zoom is clamped.  (4 viewBox
\* units are allowed for the rounding of the fixed-point arithmetic.)
C20_CursorPointFixed ==
    [][ \A m \in WheelPoints, d \in WheelDeltas :
            handleWheel(m, d)
            => /\ Distance(ShownAfter(m.x, Width \div 2, pan.x, pan'.x,
                                      userZoom, userZoom'), m.x) <= 4
               /\ Distance(ShownAfter(m.y, Height \div 2, pan.y, pan'.y,
                                      userZoom, userZoom'), m.y) <= 4
      ]_vars

----------------------------------------------------------------------------
(* Claims: removal of a merge *)

\* C21: removeMerge(from) deletes the edge of from and leaves every edge of
\* another id as it was, without an error; applied again, when from has no
\* edge any more, it changes nothing.
C21_RemoveMergeIdempotent ==
    [][ \A f \in DOMAIN mergeMap :
            removeMerge(f)
            => /\ DOMAIN mergeMap' = DOMAIN mergeMap \ {f}
               /\ \A k \in DOMAIN mergeMap' : mergeMap'[k] = mergeMap[k]
               /\ error' = error
               /\ MapDelete(mergeMap', f) = mergeMap' ]_vars

\* one edge left of a map over the three ids, the aggregation re-run
C21_Witness ==
    /\ Aggregated
    /\ Cardinality(DOMAIN mergeMap) = 1
    /\ Cardinality(GameIds(unmergedGames)) = 3
    /\ Len(games) = 2


----------------------------------------------------------------------------
(* Claims: the deferred scatter computation *)

\* C22: once every scheduled scatter computation has resolved, the stored
\* scatter layout is the result for the inputs triggered last: in scatter
\* mode the current sized items with the targets of the current seed, in
\* packed mode the empty layout.
C22_LatestInputsWin ==
    (ChartMounted /\ Len(timers) = 0) =>
        IF layoutMode = "packed"
        THEN scatterLayout = <<>>
        ELSE /\ Len(scatterLayout) = Len(sized)
             /\ \A j \in 1..Len(scatterLayout) :
                    /\ scatterLayout[j].data = sized[j]
                    /\ scatterLayout[j].target =
                           ScatterNodes(sized, shuffleSeed, EmptyMap)[j].target

\* C23: at most one scatter computation is scheduled and not yet resolved.
C23_OneInFlight == Len(timers) <= 1

\* C24: the processing flag is true exactly while a computation has been
\* triggered and has not resolved.
C24_ProcessingBrackets == ChartMounted => (processing <=> Len(timers) > 0)

\* C30: while the mode stays packed no step writes the stored scatter
\* layout, the memo or the processing flag: the layout stays empty.
C30_PackedStaysEmpty ==
    [][ (layoutMode = "packed" /\ layoutMode' = "packed"
         /\ ChartMounted /\ ChartMounted')
        => /\ scatterLayout' = <<>>
           /\ scatterPosRef' = scatterPosRef
           /\ scatterMaxRRef' = scatterMaxRRef
           /\ processing' = processing ]_vars


C26_SeedChangesStart ==
    (Len(timers) > 0 /\ ~Head(timers).dead) =>
        LET t == Head(timers)
            prev == IF significantRadiusChange(scatterMaxRRef, MaxRNow(t.sized))
                    THEN EmptyMap ELSE scatterPosRef
        IN  \A s \in (0..MaxSeed) \ {t.shuffleSeed}, j \in 1..Len(t.sized) :
                LET a == ScatterNodes(t.sized, t.shuffleSeed, prev)[j]
                    b == ScatterNodes(t.sized, s, prev)[j]
                IN  /\ a.target.jitter # b.target.jitter
                    /\ a.start # b.start


----------------------------------------------------------------------------
(* Claims: the canonical set after edits *)

\* C27: the k-th canonical entry carries the id of the k-th merge root of
\* the unmerged set, and no two canonical entries carry the same id.
C27_IdIsRoot ==
    Aggregated =>
        /\ \A k \in 1..Len(games) : games[k].appid = RootOf(NthFirst(k))
        /\ \A i, j \in 1..Len(games) :
               i # j => games[i].appid # games[j].appid


\* C28: after every edit the unmerged set and the canonical set are the
\* aggregation of the current raw list, manual list and merge map; both
\* are empty when both lists are empty.
C28_SetsAreAggregation ==
    /\ unmergedGames = Base(rawGames, manualGames)
    /\ games = Merged(Base(rawGames, manualGames), mergeMap)
    /\ (Len(rawGames) = 0 /\ Len(manualGames) = 0)
           => (unmergedGames = <<>> /\ games = <<>>)


----------------------------------------------------------------------------
(* Claims: hide requests of the chart *)

\* C29: a hide request of the chart for a bubble it displays leaves the
\* item of that bubble in the HiddenSet.
C29_HideRequestHides ==
    [][ \A a \in GameIds(games) :
            onContextMenu(a) => a \in hiddenAppids' ]_vars

====
